---- MODULE Spec2Model ----
(***************************************************************************)
(* Moving-average crossover backtest (src/strategy_analysis.py):           *)
(* run_strategy walked bar by bar, followed by calc_metrics on the curve   *)
(* it returns.  Floats are modelled as exact rationals [n, d] in lowest    *)
(* terms, a row as [Datetime, Close] with Datetime counted in ticks.       *)
(***************************************************************************)
EXTENDS Integers, Sequences, FiniteSets, TLC

\* ---- bounds of the model ----
MaxBars == 5
MaxClose == 3
MaxWindow == 3
MaxGap == 2
TicksPerDay == 2
MaxPoints == 3
MaxEquity == 7

\* ---- exact rational arithmetic standing for Python floats ----
Abs(x) == IF x < 0 THEN -x ELSE x

RECURSIVE GCD(_, _)
GCD(a, b) == IF b = 0 THEN a ELSE GCD(b, a % b)

Rat(n, d) ==
    LET g == GCD(Abs(n), Abs(d))
        s == IF d < 0 THEN -1 ELSE 1
    IN [n |-> s * (n \div g), d |-> s * (d \div g)]

RInt(k) == [n |-> k, d |-> 1]
RAdd(a, b) == Rat(a.n * b.d + b.n * a.d, a.d * b.d)
RSub(a, b) == Rat(a.n * b.d - b.n * a.d, a.d * b.d)
RMul(a, b) == Rat(a.n * b.n, a.d * b.d)
RDiv(a, b) == Rat(a.n * b.d, a.d * b.n)
RLt(a, b) == a.n * b.d < b.n * a.d
RLe(a, b) == a.n * b.d <= b.n * a.d
RZero == RInt(0)
ROne == RInt(1)

\* ---- Python list helpers ----
\* Python's None in an exit field, outside the range of times and prices
None == -1

\* s[lo:hi] with Python's clamping of negative and out-of-range indices
PySlice(s, lo, hi) ==
    LET n == Len(s)
        norm(k) == IF k < 0 THEN (IF n + k < 0 THEN 0 ELSE n + k)
                   ELSE (IF k > n THEN n ELSE k)
        a == norm(lo)
        b == norm(hi)
    IN IF a >= b THEN <<>> ELSE SubSeq(s, a + 1, b)

RECURSIVE PySum(_)
PySum(s) == IF s = <<>> THEN 0 ELSE Head(s) + PySum(Tail(s))

\* ---- class Trade ----
Trade(time, price, position) ==
    [time |-> time, price |-> price, position |-> position,
     exit_time |-> None, exit_price |-> None]

\* variant: the exit is booked at the entry price
TradeClose_AtEntryPrice(t, time, price) ==
    [t EXCEPT !.exit_time = time, !.exit_price = t.price]

TradeClose(t, time, price) ==
    [t EXCEPT !.exit_time = time, !.exit_price = price]

\* variant: the Long branch divides the wrong way round
pnl_Inverted(t) ==
    IF t.exit_price = None THEN RZero
    ELSE RSub(Rat(t.price, t.exit_price), ROne)

pnl(t) ==
    IF t.exit_price = None THEN RZero
    ELSE IF t.position = 1 THEN RSub(Rat(t.exit_price, t.price), ROne)
    ELSE RSub(Rat(t.price, t.exit_price), ROne)

\* ---- run_strategy: moving averages and cross detection ----
\* variant: evaluation starts one bar early
Eligible_Inclusive(cl, lw) == Len(cl) >= lw

Eligible(cl, lw) == Len(cl) > lw

short_ma(cl, sw) == Rat(PySum(PySlice(cl, -sw, Len(cl))), sw)
long_ma(cl, lw) == Rat(PySum(PySlice(cl, -lw, Len(cl))), lw)
prev_short_ma(cl, sw) == Rat(PySum(PySlice(cl, -sw - 1, -1)), sw)
prev_long_ma(cl, lw) == Rat(PySum(PySlice(cl, -lw - 1, -1)), lw)

\* variant: touching averages already count as a cross
cross_up_NonStrict(cl, sw, lw) ==
    /\ RLe(prev_short_ma(cl, sw), prev_long_ma(cl, lw))
    /\ RLe(long_ma(cl, lw), short_ma(cl, sw))

cross_up(cl, sw, lw) ==
    /\ RLe(prev_short_ma(cl, sw), prev_long_ma(cl, lw))
    /\ RLt(long_ma(cl, lw), short_ma(cl, sw))

\* variant: the previous bar must be strictly above
cross_dn_Strict(cl, sw, lw) ==
    /\ RLt(prev_long_ma(cl, lw), prev_short_ma(cl, sw))
    /\ RLt(short_ma(cl, sw), long_ma(cl, lw))

cross_dn(cl, sw, lw) ==
    /\ RLe(prev_long_ma(cl, lw), prev_short_ma(cl, sw))
    /\ RLt(short_ma(cl, sw), long_ma(cl, lw))

\* variant: the close of the last Trade is forgotten
CloseLastTrade_Skipped(tr, time, price) == tr

CloseLastTrade(tr, time, price) ==
    [tr EXCEPT ![Len(tr)] = TradeClose(tr[Len(tr)], time, price)]

\* variant: an opposing signal closes the Trade and goes Flat
Transition_FlatOnReverse(pos, tr, row, up, dn) ==
    IF pos = 0 THEN
        IF up THEN [position |-> 1,
                    trades |-> Append(tr, Trade(row.Datetime, row.Close, 1))]
        ELSE IF dn THEN [position |-> -1,
                    trades |-> Append(tr, Trade(row.Datetime, row.Close, -1))]
        ELSE [position |-> pos, trades |-> tr]
    ELSE IF (pos = 1 /\ dn) \/ (pos = -1 /\ up)
         THEN [position |-> 0,
               trades |-> [tr EXCEPT ![Len(tr)] =
                              TradeClose(tr[Len(tr)], row.Datetime, row.Close)]]
         ELSE [position |-> pos, trades |-> tr]

\* variant: a repeated signal in the held direction opens another Trade
Transition_Pyramiding(pos, tr, row, up, dn) ==
    IF up /\ pos # -1
    THEN [position |-> 1,
          trades |-> Append(tr, Trade(row.Datetime, row.Close, 1))]
    ELSE IF dn /\ pos # 1
    THEN [position |-> -1,
          trades |-> Append(tr, Trade(row.Datetime, row.Close, -1))]
    ELSE IF (pos = 1 /\ dn) \/ (pos = -1 /\ up)
    THEN [position |-> -pos,
          trades |-> Append([tr EXCEPT ![Len(tr)] =
                                TradeClose(tr[Len(tr)], row.Datetime, row.Close)],
                            Trade(row.Datetime, row.Close, -pos))]
    ELSE [position |-> pos, trades |-> tr]

\* the position state machine of one eligible bar: new position and trade log
Transition(pos, tr, row, up, dn) ==
    IF pos = 0 THEN
        IF up THEN [position |-> 1,
                    trades |-> Append(tr, Trade(row.Datetime, row.Close, 1))]
        ELSE IF dn THEN [position |-> -1,
                    trades |-> Append(tr, Trade(row.Datetime, row.Close, -1))]
        ELSE [position |-> pos, trades |-> tr]
    ELSE IF pos = 1 THEN
        IF dn THEN [position |-> -1,
                    trades |-> Append(CloseLastTrade(tr, row.Datetime, row.Close),
                                      Trade(row.Datetime, row.Close, -1))]
        ELSE [position |-> pos, trades |-> tr]
    ELSE
        IF up THEN [position |-> 1,
                    trades |-> Append(CloseLastTrade(tr, row.Datetime, row.Close),
                                      Trade(row.Datetime, row.Close, 1))]
        ELSE [position |-> pos, trades |-> tr]

\* ret = position * (close / last_close - 1)
StepReturn(pos, close, last) == RMul(RInt(pos), RSub(Rat(close, last), ROne))

\* variant: the return is added instead of compounded
Compound_Additive(eq, r) == RAdd(eq, r)

\* equity *= (1 + ret)
Compound(eq, r) == RMul(eq, RAdd(ROne, r))

\* the state of run_strategy before its loop
EngineInit(rs) ==
    [closes |-> <<>>, position |-> 0, equity |-> ROne,
     last_close |-> rs[1].Close, trades |-> <<>>, eq_curve |-> <<>>,
     rets |-> <<>>]

\* variant: the curve is only recorded while a position is held
EngineStep_CurveWhenInvested(s, row, sw, lw) ==
    LET cl == Append(s.closes, row.Close)
        tn == IF Eligible(cl, lw)
              THEN Transition(s.position, s.trades, row,
                              cross_up(cl, sw, lw), cross_dn(cl, sw, lw))
              ELSE [position |-> s.position, trades |-> s.trades]
        r  == StepReturn(tn.position, row.Close, s.last_close)
        eq == Compound(s.equity, r)
    IN [closes |-> cl, position |-> tn.position, equity |-> eq,
        last_close |-> row.Close, trades |-> tn.trades,
        eq_curve |-> IF tn.position = 0 THEN s.eq_curve
                     ELSE Append(s.eq_curve, <<row.Datetime, eq>>),
        rets |-> Append(s.rets, r)]

\* one iteration of the loop over rows
EngineStep(s, row, sw, lw) ==
    LET cl == Append(s.closes, row.Close)
        tn == IF Eligible(cl, lw)
              THEN Transition(s.position, s.trades, row,
                              cross_up(cl, sw, lw), cross_dn(cl, sw, lw))
              ELSE [position |-> s.position, trades |-> s.trades]
        r  == StepReturn(tn.position, row.Close, s.last_close)
        eq == Compound(s.equity, r)
    IN [closes |-> cl, position |-> tn.position, equity |-> eq,
        last_close |-> row.Close, trades |-> tn.trades,
        eq_curve |-> Append(s.eq_curve, <<row.Datetime, eq>>),
        rets |-> Append(s.rets, r)]

\* variant: the open Trade is closed at the previous bar
EngineFinish_PreviousBar(tr, rs) ==
    IF tr # <<>> /\ tr[Len(tr)].exit_price = None /\ Len(rs) > 1
    THEN [tr EXCEPT ![Len(tr)] = TradeClose(tr[Len(tr)],
                                    rs[Len(rs) - 1].Datetime, rs[Len(rs) - 1].Close)]
    ELSE tr

\* variant: every Trade of the log is closed at the last bar
EngineFinish_CloseAll(tr, rs) ==
    [i \in 1..Len(tr) |->
        TradeClose(tr[i], rs[Len(rs)].Datetime, rs[Len(rs)].Close)]

\* variant: the open Trade is closed at the first bar
EngineFinish_FirstBar(tr, rs) ==
    IF tr # <<>> /\ tr[Len(tr)].exit_price = None
    THEN [tr EXCEPT ![Len(tr)] = TradeClose(tr[Len(tr)],
                                    rs[1].Datetime, rs[1].Close)]
    ELSE tr

\* the force-close after the loop
EngineFinish(tr, rs) ==
    IF tr # <<>> /\ tr[Len(tr)].exit_price = None
    THEN CloseLastTrade(tr, rs[Len(rs)].Datetime, rs[Len(rs)].Close)
    ELSE tr

\* ---- calc_metrics ----
DaysPerYear == 365
PeriodsPerYear == 6552
ZeroDivisionError == "ZeroDivisionError"
Raise == [ok |-> FALSE, v |-> ZeroDivisionError]
Value(x) == [ok |-> TRUE, v |-> x]

\* variant: a started day counts as a whole day
ElapsedDays_RoundedUp(curve) ==
    (curve[Len(curve)][1] - curve[1][1] + TicksPerDay - 1) \div TicksPerDay

\* (eq_curve[-1][0] - eq_curve[0][0]).days
ElapsedDays(curve) == (curve[Len(curve)][1] - curve[1][1]) \div TicksPerDay

\* rets: r = eq_curve[i][1] / eq_curve[i-1][1] - 1; a zero divisor raises
CurveReturns(curve) ==
    IF \E i \in 1..(Len(curve) - 1) : curve[i][2] = RZero
    THEN Raise
    ELSE Value([i \in 1..(Len(curve) - 1) |->
                   RSub(RDiv(curve[i + 1][2], curve[i][2]), ROne)])

RECURSIVE RSum(_)
RSum(s) == IF s = <<>> THEN RZero ELSE RAdd(Head(s), RSum(Tail(s)))

Sign(x) == IF x.n > 0 THEN 1 ELSE IF x.n < 0 THEN -1 ELSE 0

\* sharpe = (avg / std) * sqrt(6552); the square root is kept exact by
\* recording the sign and the square of the value
SharpeOf(rs) ==
    IF rs = <<>> THEN Value([sign |-> 0, sq |-> RZero])
    ELSE
        LET avg == RDiv(RSum(rs), RInt(Len(rs)))
            dev == [i \in 1..Len(rs) |->
                       RMul(RSub(rs[i], avg), RSub(rs[i], avg))]
        IN IF Len(rs) - 1 = 0 THEN Raise
           ELSE LET var == RDiv(RSum(dev), RInt(Len(rs) - 1))
                IN IF var # RZero
                   THEN Value([sign |-> Sign(avg),
                               sq |-> RMul(RDiv(RMul(avg, avg), var),
                                           RInt(PeriodsPerYear))])
                   ELSE Value([sign |-> 0, sq |-> RZero])

\* the drawdown loop from curve point k on, given max_equity and max_dd
RECURSIVE DrawdownFrom(_, _, _, _)
DrawdownFrom(curve, k, max_equity, max_dd) ==
    IF k > Len(curve) THEN Value(max_dd)
    ELSE
        LET eq == curve[k][2]
            me == IF RLt(max_equity, eq) THEN eq ELSE max_equity
        IN IF me = RZero THEN Raise
           ELSE LET dd == RDiv(RSub(me, eq), me)
                IN DrawdownFrom(curve, k + 1, me,
                                IF RLt(max_dd, dd) THEN dd ELSE max_dd)

\* variant: the peak stays at the first point of the curve
MaxDrawdown_FixedPeak(curve) ==
    LET first == curve[1][2]
        dds == {RDiv(RSub(first, curve[k][2]), first) : k \in 1..Len(curve)}
        top == CHOOSE m \in dds : \A x \in dds : RLe(x, m)
    IN IF first = RZero THEN Raise ELSE Value(top)

MaxDrawdown(curve) == DrawdownFrom(curve, 1, curve[1][2], RZero)

Failed == [status |-> ZeroDivisionError]
NotRun == [status |-> "None"]

\* a float power overflows at 2 ** 1024: base ** (365 / days) does so when
\* base reaches 2 ** (1024 / 365) = 6.99... per elapsed day, taken as 7
OverflowError == "OverflowError"
FloatPowCut == 7
RECURSIVE IntPow(_, _)
IntPow(b, e) == IF e <= 0 THEN 1 ELSE b * IntPow(b, e - 1)
PowOverflows(base, days) == Abs(base.n) >= IntPow(FloatPowCut, days) * base.d
Overflowed == [status |-> OverflowError]

\* annual_ret is (end_val / start_val) ** (1 / years) - 1, kept as the pair
\* of its base and its exponent 365 / days; mar as the pair of its operands
CalcMetrics(curve) ==
    LET start_val == curve[1][2]
        end_val == curve[Len(curve)][2]
        days == ElapsedDays(curve)
    IN IF days = 0 \/ start_val = RZero THEN Failed
       ELSE IF PowOverflows(RDiv(end_val, start_val), days) THEN Overflowed
       ELSE
        LET annual_ret == [base |-> RDiv(end_val, start_val),
                           exponent |-> Rat(DaysPerYear, days)]
            rs == CurveReturns(curve)
        IN IF ~rs.ok THEN Failed
           ELSE
            LET sharpe == SharpeOf(rs.v) IN
            IF ~sharpe.ok THEN Failed
            ELSE
             LET max_dd == MaxDrawdown(curve) IN
             IF ~max_dd.ok THEN Failed
             ELSE [status |-> "ok", annual_ret |-> annual_ret,
                   sharpe |-> sharpe.v, max_dd |-> max_dd.v,
                   mar |-> IF max_dd.v # RZero
                           THEN [zero |-> FALSE, num |-> annual_ret,
                                 den |-> max_dd.v]
                           ELSE [zero |-> TRUE]]

\* ---- buy_and_hold ----
\* the loop from row k on, given equity and last
RECURSIVE BuyAndHoldFrom(_, _, _, _)
BuyAndHoldFrom(rs, k, eq, last) ==
    IF k > Len(rs) THEN <<>>
    ELSE LET e == RMul(eq, Rat(rs[k].Close, last))
         IN <<<<rs[k].Datetime, e>>>> \o BuyAndHoldFrom(rs, k + 1, e, rs[k].Close)

\* variant: equity is assigned the bar's own ratio instead of compounded
BuyAndHold_NotCompounded(rs) ==
    [k \in 1..Len(rs) |->
        <<rs[k].Datetime,
          Rat(rs[k].Close, rs[IF k = 1 THEN 1 ELSE k - 1].Close)>>]

BuyAndHold(rs) == BuyAndHoldFrom(rs, 1, ROne, rs[1].Close)

\* ---- trade_frequency ----
DaysPerMonth == 30
TypeError == "TypeError"

\* variant: the elapsed time is not converted to months
TradeFrequency_PerDay(tr) ==
    IF tr = <<>> THEN Value(RZero)
    ELSE IF tr[Len(tr)].exit_time = None
         THEN [ok |-> FALSE, v |-> TypeError]
    ELSE LET days == (tr[Len(tr)].exit_time - tr[1].time) \div TicksPerDay
         IN IF days # 0 THEN Value(Rat(Len(tr), days))
            ELSE Value(RInt(Len(tr)))

\* subtracting from an exit_time that is still None is a TypeError
TradeFrequency(tr) ==
    IF tr = <<>> THEN Value(RZero)
    ELSE IF tr[Len(tr)].exit_time = None
         THEN [ok |-> FALSE, v |-> TypeError]
    ELSE LET days == (tr[Len(tr)].exit_time - tr[1].time) \div TicksPerDay
             months == Rat(days, DaysPerMonth)
         IN IF months # RZero THEN Value(RDiv(RInt(Len(tr)), months))
            ELSE Value(RInt(Len(tr)))

\* ---- the mirrored bar sequence used for the symmetry property ----
MirrorPivot == MaxClose + 1
MirrorRows(rs) ==
    [k \in 1..Len(rs) |-> [Datetime |-> rs[k].Datetime,
                            Close |-> MirrorPivot - rs[k].Close]]

VARIABLES
    SHORT_WINDOW, LONG_WINDOW,   \* module-level parameters
    rows,                        \* the input bars
    pc,                          \* "loop", "returned", "baseline", "metrics",
                                 \* "bh_metrics", "done"
    closes, position, equity, last_close, trades, eq_curve,
    rets,                        \* the successive values of the local ret
    mirror,                      \* run_strategy on MirrorRows(rows), in step
    strat_metrics,               \* result of calc_metrics(eq_curve)
    bh_curve,                    \* result of buy_and_hold(rows)
    bh_metrics,                  \* result of calc_metrics(bh_curve)
    freq                         \* result of trade_frequency(trades)

vars == <<SHORT_WINDOW, LONG_WINDOW, rows, pc, closes, position, equity,
          last_close, trades, eq_curve, rets, mirror, strat_metrics,
          bh_curve, bh_metrics, freq>>

Engine == [closes |-> closes, position |-> position, equity |-> equity,
           last_close |-> last_close, trades |-> trades,
           eq_curve |-> eq_curve, rets |-> rets]

SetEngine(n) ==
    /\ closes' = n.closes
    /\ position' = n.position
    /\ equity' = n.equity
    /\ last_close' = n.last_close
    /\ trades' = n.trades
    /\ eq_curve' = n.eq_curve
    /\ rets' = n.rets

Init ==
    /\ SHORT_WINDOW \in 1..MaxWindow
    /\ LONG_WINDOW \in 1..MaxWindow
    /\ \E n \in 1..MaxBars, g \in 0..MaxGap :
         \E cs \in [1..n -> 1..MaxClose] :
            rows = [k \in 1..n |-> [Datetime |-> (k - 1) * g, Close |-> cs[k]]]
    /\ pc = "loop"
    /\ closes = <<>>
    /\ position = 0
    /\ equity = ROne
    /\ last_close = rows[1].Close
    /\ trades = <<>>
    /\ eq_curve = <<>>
    /\ rets = <<>>
    /\ mirror = EngineInit(MirrorRows(rows))
    /\ strat_metrics = NotRun
    /\ bh_curve = <<>>
    /\ bh_metrics = NotRun
    /\ freq = [ok |-> FALSE, v |-> "None"]

\* for row in rows: one bar
Bar ==
    /\ pc = "loop"
    /\ Len(closes) < Len(rows)
    /\ LET k == Len(closes) + 1 IN
         /\ SetEngine(EngineStep(Engine, rows[k], SHORT_WINDOW, LONG_WINDOW))
         /\ mirror' = EngineStep(mirror, MirrorRows(rows)[k],
                                 SHORT_WINDOW, LONG_WINDOW)
    /\ UNCHANGED <<SHORT_WINDOW, LONG_WINDOW, rows, pc, strat_metrics,
                   bh_curve, bh_metrics, freq>>

\* the loop is exhausted: close last trade and return
Return ==
    /\ pc = "loop"
    /\ Len(closes) = Len(rows)
    /\ trades' = EngineFinish(trades, rows)
    /\ mirror' = [mirror EXCEPT
                    !.trades = EngineFinish(mirror.trades, MirrorRows(rows))]
    /\ pc' = "returned"
    /\ UNCHANGED <<SHORT_WINDOW, LONG_WINDOW, rows, closes, position, equity,
                   last_close, eq_curve, rets, strat_metrics,
                   bh_curve, bh_metrics, freq>>

\* the calls main makes on the results of run_strategy follow, in main's
\* order; each is made on every returned result, whatever the call before
\* it produced, as a caller of the single functions would make them

\* main: bh_curve = buy_and_hold(rows)
Baseline ==
    /\ pc = "returned"
    /\ bh_curve' = BuyAndHold(rows)
    /\ pc' = "baseline"
    /\ UNCHANGED <<SHORT_WINDOW, LONG_WINDOW, rows, closes, position, equity,
                   last_close, trades, eq_curve, rets, mirror, strat_metrics,
                   bh_metrics, freq>>

\* main: strat_metrics = calc_metrics(eq_curve)
Metrics ==
    /\ pc = "baseline"
    /\ strat_metrics' = CalcMetrics(eq_curve)
    /\ pc' = "metrics"
    /\ UNCHANGED <<SHORT_WINDOW, LONG_WINDOW, rows, closes, position, equity,
                   last_close, trades, eq_curve, rets, mirror,
                   bh_curve, bh_metrics, freq>>

\* main: bh_metrics = calc_metrics(bh_curve)
BaselineMetrics ==
    /\ pc = "metrics"
    /\ bh_metrics' = CalcMetrics(bh_curve)
    /\ pc' = "bh_metrics"
    /\ UNCHANGED <<SHORT_WINDOW, LONG_WINDOW, rows, closes, position, equity,
                   last_close, trades, eq_curve, rets, mirror, strat_metrics,
                   bh_curve, freq>>

\* main: freq = trade_frequency(trades)
Frequency ==
    /\ pc = "bh_metrics"
    /\ freq' = TradeFrequency(trades)
    /\ pc' = "done"
    /\ UNCHANGED <<SHORT_WINDOW, LONG_WINDOW, rows, closes, position, equity,
                   last_close, trades, eq_curve, rets, mirror, strat_metrics,
                   bh_curve, bh_metrics>>

Next == Bar \/ Return \/ Baseline \/ Metrics \/ BaselineMetrics \/ Frequency

Spec == Init /\ [][Next]_vars

\* ---- calc_metrics on its own, applied to any curve of a bounded set ----
CurveValues == {RInt(k) : k \in -1..MaxEquity}

InitMetrics ==
    /\ SHORT_WINDOW = 1
    /\ LONG_WINDOW = 1
    /\ rows = <<>>
    /\ pc = "baseline"
    /\ closes = <<>>
    /\ position = 0
    /\ equity = ROne
    /\ last_close = 1
    /\ trades = <<>>
    /\ \E n \in 1..MaxPoints :
         \E gs \in [1..(n - 1) -> 0..MaxGap], es \in [1..n -> CurveValues] :
            eq_curve = [k \in 1..n |->
                          <<PySum(SubSeq(gs, 1, k - 1)), es[k]>>]
    /\ rets = <<>>
    /\ mirror = [closes |-> <<>>, position |-> 0, equity |-> ROne,
                 last_close |-> 1, trades |-> <<>>, eq_curve |-> <<>>,
                 rets |-> <<>>]
    /\ strat_metrics = NotRun
    /\ bh_curve = <<>>
    /\ bh_metrics = NotRun
    /\ freq = [ok |-> FALSE, v |-> "None"]

NextMetrics == Metrics

SpecMetrics == InitMetrics /\ [][NextMetrics]_vars

\* ---- shared vocabulary of the properties ----
BarTaken == pc = "loop" /\ Len(closes') = Len(closes) + 1
CurrentRow == rows[Len(closes')]
OpenTrades(tr) == {i \in 1..Len(tr) : tr[i].exit_price = None}
Returned == pc # "loop"

\* C1: for every bar t the return applied to equity is
\* position_sign * (close_t / close_{t-1} - 1) with position_sign the position
\* held entering bar t, before the transition decided from bar t's crossover
\* (stated for the expected configuration SHORT_WINDOW < LONG_WINDOW).
C1_ReturnUsesEnteringPosition ==
    [][(BarTaken /\ SHORT_WINDOW < LONG_WINDOW) =>
         rets'[Len(rets')] =
            RMul(RInt(position), RSub(Rat(CurrentRow.Close, last_close), ROne))]_vars

\* C2: on every eligible bar a state-changing signal follows the transition
\* table: Flat opens a Trade at the bar's timestamp and close; Long with
\* cross_dn and Short with cross_up close the current Trade and open the
\* opposite one, both at the bar's timestamp and close.
C2_TransitionTable ==
    [][(BarTaken /\ Eligible(closes', LONG_WINDOW)) =>
        LET up == cross_up(closes', SHORT_WINDOW, LONG_WINDOW)
            dn == cross_dn(closes', SHORT_WINDOW, LONG_WINDOW)
            t  == CurrentRow.Datetime
            c  == CurrentRow.Close
            n  == Len(trades)
            opened(dir) ==
                trades' = Append(trades,
                    [time |-> t, price |-> c, position |-> dir,
                     exit_time |-> None, exit_price |-> None])
            reversed(dir) ==
                /\ Len(trades') = n + 1
                /\ \A i \in 1..(n - 1) : trades'[i] = trades[i]
                /\ trades'[n] = [time |-> trades[n].time,
                                 price |-> trades[n].price,
                                 position |-> trades[n].position,
                                 exit_time |-> t, exit_price |-> c]
                /\ trades'[n + 1] = [time |-> t, price |-> c, position |-> dir,
                                     exit_time |-> None, exit_price |-> None]
        IN /\ (position = 0 /\ up) => (position' = 1 /\ opened(1))
           /\ (position = 0 /\ dn) => (position' = -1 /\ opened(-1))
           /\ (position = 1 /\ dn) => (position' = -1 /\ reversed(-1))
           /\ (position = -1 /\ up) => (position' = 1 /\ reversed(1))]_vars

\* a reversal has happened: one Trade closed by a signal, the opposite one open
C2_Witness ==
    /\ pc = "loop"
    /\ Len(trades) >= 2
    /\ trades[1].exit_price # None
    /\ trades[2].position = -trades[1].position
    /\ trades[2].time = trades[1].exit_time

\* C3: in every reachable state the trade log holds at most one Trade whose
\* exit is unset, and a Trade is appended only when the log is empty or its
\* last Trade has just been closed.
C3_AtMostOneOpenTrade ==
    /\ [](Cardinality(OpenTrades(trades)) <= 1)
    /\ [][Len(trades') > Len(trades) =>
            /\ Len(trades') = Len(trades) + 1
            /\ \/ trades = <<>>
               \/ /\ trades[Len(trades)].exit_price = None
                  /\ trades'[Len(trades)].exit_price # None]_vars

\* three Trades in the log, only the last one open
C3_Witness ==
    /\ Len(trades) = 3
    /\ OpenTrades(trades) = {3}

\* C4: when run_strategy returns, a Trade still open after the last bar has
\* been closed at the last bar's timestamp and close, every Trade of the
\* returned log is closed and no other field of the log was touched.
C4_ForceCloseAtLastBar ==
    /\ [](Returned => OpenTrades(trades) = {})
    /\ [][(pc = "loop" /\ pc' # "loop") =>
            LET n == Len(trades)
                last == rows[Len(rows)]
            IN /\ Len(trades') = n
               /\ \A i \in 1..n :
                    IF trades[i].exit_price = None
                    THEN trades'[i] = [time |-> trades[i].time,
                                       price |-> trades[i].price,
                                       position |-> trades[i].position,
                                       exit_time |-> last.Datetime,
                                       exit_price |-> last.Close]
                    ELSE trades'[i] = trades[i]]_vars

\* returned with a Trade force-closed at a later bar than its entry bar
C4_Witness ==
    /\ Returned
    /\ trades # <<>>
    /\ trades[Len(trades)].exit_time = rows[Len(rows)].Datetime
    /\ trades[Len(trades)].exit_time > trades[Len(trades)].time
    /\ trades[Len(trades)].exit_price # trades[Len(trades)].price

\* C5: during the first LONG_WINDOW bars the position stays Flat, no Trade is
\* opened and the recorded equity is 1.0; a run with fewer than
\* LONG_WINDOW + 1 bars returns zero trades and a curve of 1.0 at every
\* point; bar LONG_WINDOW + 1 is the first at which a Trade can be opened.
C5_NoSignalBeforeLongWindow ==
    /\ \A t \in 1..Len(eq_curve) : t <= LONG_WINDOW => eq_curve[t][2] = ROne
    /\ Len(closes) <= LONG_WINDOW => (position = 0 /\ trades = <<>>)
    /\ (Returned /\ Len(rows) < LONG_WINDOW + 1) =>
          /\ trades = <<>>
          /\ Len(eq_curve) = Len(rows)
          /\ \A t \in 1..Len(eq_curve) : eq_curve[t][2] = ROne

\* a Trade opened at bar LONG_WINDOW + 1 under the usual short < long setting
C5_Witness ==
    /\ SHORT_WINDOW < LONG_WINDOW
    /\ Len(closes) = LONG_WINDOW + 1
    /\ Len(trades) = 1
    /\ position # 0

\* the compounded product of the multipliers (1 + r_i), i = 1..t
RECURSIVE Compounded(_, _)
Compounded(rs, t) ==
    IF t = 0 THEN ROne
    ELSE RMul(Compounded(rs, t - 1), Rat(rs[t].d + rs[t].n, rs[t].d))

MinusOne == RInt(-1)
IsProduct(t) == eq_curve[t][2] = Compounded(rets, t)

\* C6 as stated: equity_t > 0 at every point whenever no single-step return
\* is exactly -100%, and equity_t is the compounded product of the per-step
\* multipliers (1 + return_i), i up to t (expected configuration).
C6_PositiveUnlessMinus100 ==
    SHORT_WINDOW < LONG_WINDOW =>
      \A t \in 1..Len(eq_curve) :
        /\ IsProduct(t)
        /\ (\A i \in 1..t : rets[i] # MinusOne) => RLt(RZero, eq_curve[t][2])

\* C6 amended: equity_t is the compounded product of the multipliers
\* (1 + return_i), i up to t, and equity_t > 0 whenever every single-step
\* return up to t is greater than -100%.
C6_PositiveAboveMinus100 ==
    \A t \in 1..Len(eq_curve) :
        /\ IsProduct(t)
        /\ (\A i \in 1..t : RLt(MinusOne, rets[i])) => RLt(RZero, eq_curve[t][2])

\* a curve that has lost and then gained, every return above -100%
C6_Witness ==
    /\ Len(rets) >= 2
    /\ \A i \in 1..Len(rets) : RLt(MinusOne, rets[i])
    /\ \E i \in 1..Len(rets) : RLt(rets[i], RZero)
    /\ \E i \in 1..Len(rets) : RLt(RZero, rets[i])
    /\ RLt(RZero, equity) /\ equity # ROne

\* the sample variance of the per-step returns of a curve is zero
FlatReturns(curve) ==
    \A i, j \in 2..Len(curve) :
        RMul(curve[i][2], curve[j - 1][2]) = RMul(curve[j][2], curve[i - 1][2])

\* C7: calc_metrics returns sharpe = 0, a value and not an error, whenever
\* the standard deviation of the per-step returns is 0 or fewer than 2
\* return samples exist, the two-point curve included (stated for curves
\* with a non-zero day span and non-zero equity, where nothing else fails).
C7_SharpeZeroOnDegenerateReturns ==
    (/\ pc = "done"
     /\ ElapsedDays(eq_curve) # 0
     /\ \A t \in 1..Len(eq_curve) : eq_curve[t][2] # RZero
     /\ (Len(eq_curve) - 1 < 2 \/ FlatReturns(eq_curve)))
    => (strat_metrics.status = "ok" /\ strat_metrics.sharpe.sq = RZero)

\* the running peak and drawdown at curve point t
RMax(a, b) == IF RLt(a, b) THEN b ELSE a
RECURSIVE RunningPeak(_, _)
RunningPeak(curve, t) ==
    IF t = 1 THEN curve[1][2]
    ELSE RMax(RunningPeak(curve, t - 1), curve[t][2])
DrawdownAt(curve, t) ==
    RDiv(RSub(RunningPeak(curve, t), curve[t][2]), RunningPeak(curve, t))
IsMaxOverPoints(curve, m) ==
    /\ \E t \in 1..Len(curve) : m = DrawdownAt(curve, t)
    /\ \A t \in 1..Len(curve) : RLe(DrawdownAt(curve, t), m)

\* C8 as stated: max_drawdown is the maximum over curve points of
\* (running peak - equity) / running peak and lies in [0, 1), for every
\* curve run_strategy can produce (expected configuration).
C8_DrawdownBelowOne ==
    (strat_metrics.status = "ok" /\ SHORT_WINDOW < LONG_WINDOW) =>
        /\ IsMaxOverPoints(eq_curve, strat_metrics.max_dd)
        /\ RLe(RZero, strat_metrics.max_dd)
        /\ RLt(strat_metrics.max_dd, ROne)

\* C8 amended: whenever calc_metrics returns, max_drawdown is the maximum
\* over curve points of (running peak - equity) / running peak and is >= 0;
\* it is below 1 when every equity value of the curve is positive.
C8_DrawdownIsMaxOverPoints ==
    strat_metrics.status = "ok" =>
        /\ IsMaxOverPoints(eq_curve, strat_metrics.max_dd)
        /\ RLe(RZero, strat_metrics.max_dd)
        /\ (\A t \in 1..Len(eq_curve) : RLt(RZero, eq_curve[t][2]))
              => RLt(strat_metrics.max_dd, ROne)

\* metrics of a curve that rose above 1.0, fell back and partly recovered
C8_Witness ==
    /\ strat_metrics.status = "ok"
    /\ RLt(RZero, strat_metrics.max_dd)
    /\ \A t \in 1..Len(eq_curve) : RLt(RZero, eq_curve[t][2])
    /\ \E t \in 2..(Len(eq_curve) - 1) :
          /\ RLt(ROne, RunningPeak(eq_curve, t - 1))
          /\ strat_metrics.max_dd = DrawdownAt(eq_curve, t)
          /\ RLt(eq_curve[t][2], eq_curve[t + 1][2])

\* the closes of the first k rows, and the eligible bars with each signal
ClosesUpTo(k) == [j \in 1..k |-> rows[j].Close]
EligibleBars == {k \in 1..Len(rows) : k > LONG_WINDOW}
UpBars == {k \in EligibleBars :
              cross_up(ClosesUpTo(k), SHORT_WINDOW, LONG_WINDOW)}
DnBars == {k \in EligibleBars :
              cross_dn(ClosesUpTo(k), SHORT_WINDOW, LONG_WINDOW)}

\* C9: if cross_up is true at exactly one eligible bar k and cross_dn at
\* none, run_strategy returns exactly one Trade: Long, entered at bar k's
\* timestamp and close, exited at the final bar's timestamp and close, with
\* pnl() = final_close / entry_close - 1.
C9_SingleCrossUpSingleLong ==
    (Returned /\ Cardinality(UpBars) = 1 /\ DnBars = {}) =>
        LET k == CHOOSE b \in UpBars : TRUE
            last == rows[Len(rows)]
        IN /\ trades = <<[time |-> rows[k].Datetime, price |-> rows[k].Close,
                          position |-> 1, exit_time |-> last.Datetime,
                          exit_price |-> last.Close]>>
           /\ pnl(trades[1]) = RSub(Rat(last.Close, rows[k].Close), ROne)

\* one cross_up before the final bar, short < long, and a non-zero pnl
C9_Witness ==
    /\ Returned
    /\ SHORT_WINDOW < LONG_WINDOW
    /\ Cardinality(UpBars) = 1 /\ DnBars = {}
    /\ \A k \in UpBars : k < Len(rows)
    /\ Len(trades) = 1
    /\ pnl(trades[1]) # RZero

\* the mirror run's log has the same length, directions and timestamps
MirroredLog ==
    /\ Len(mirror.trades) = Len(trades)
    /\ \A i \in 1..Len(trades) :
          /\ mirror.trades[i].position = -trades[i].position
          /\ mirror.trades[i].time = trades[i].time
          /\ mirror.trades[i].exit_time = trades[i].exit_time

C11_CurveFollowsBars ==
    /\ [](/\ Len(eq_curve) = Len(closes)
          /\ Len(closes) <= Len(rows)
          /\ \A i \in 1..Len(closes) :
                /\ closes[i] = rows[i].Close
                /\ eq_curve[i][1] = rows[i].Datetime
          /\ (pc # "loop" => Len(eq_curve) = Len(rows)))
    /\ [][/\ Len(eq_curve') \in {Len(eq_curve), Len(eq_curve) + 1}
          /\ \A i \in 1..Len(eq_curve) : eq_curve'[i] = eq_curve[i]
          /\ BarTaken => Len(eq_curve') = Len(eq_curve) + 1]_vars

\* a returned curve of four or more entries with distinct timestamps
C11_Witness ==
    /\ pc = "returned"
    /\ Len(eq_curve) >= 4
    /\ eq_curve[1][1] < eq_curve[2][1]
    /\ eq_curve[3][1] < eq_curve[4][1]

BaselineDone == pc \in {"baseline", "metrics", "bh_metrics", "done"}

\* C12: buy_and_hold returns one entry per bar with
\* equity_t = equity_{t-1} * (close_t / close_{t-1}), equity 1.0 before the
\* first bar: the first entry is 1.0 and the entry for bar t is
\* close_t / close_first, a function of the bar sequence alone.
C12_BuyAndHoldCurve ==
    (BaselineDone /\ rows # <<>>) =>
        /\ Len(bh_curve) = Len(rows)
        /\ bh_curve[1][2] = ROne
        /\ \A t \in 1..Len(rows) :
              /\ bh_curve[t][1] = rows[t].Datetime
              /\ bh_curve[t][2] = Rat(rows[t].Close, rows[1].Close)
        /\ \A t \in 2..Len(rows) :
              bh_curve[t][2] =
                 RMul(bh_curve[t - 1][2], Rat(rows[t].Close, rows[t - 1].Close))

\* a baseline curve that fell and rose, next to a strategy curve that differs
C12_Witness ==
    /\ BaselineDone
    /\ Len(bh_curve) >= 4
    /\ RLt(bh_curve[2][2], ROne)
    /\ RLt(bh_curve[2][2], bh_curve[3][2])
    /\ RLt(ROne, bh_curve[4][2])
    /\ eq_curve # bh_curve

\* the whole days contained in a span of ticks
WholeDays(ticks) ==
    CHOOSE d \in 0..ticks :
        d * TicksPerDay <= ticks /\ ticks < (d + 1) * TicksPerDay

\* C13: trade_frequency returns 0.0 for an empty log; for a non-empty log of
\* closed trades it returns the raw trade count when the elapsed months
\* (whole days from the first entry to the last exit, divided by 30) are 0
\* and otherwise the count divided by the elapsed months; it never fails on
\* a log returned by run_strategy.
C13_TradeFrequency ==
    pc = "done" =>
        /\ freq.ok
        /\ trades = <<>> => freq.v = RZero
        /\ trades # <<>> =>
              LET days == WholeDays(trades[Len(trades)].exit_time - trades[1].time)
              IN /\ days = 0 => freq.v = RInt(Len(trades))
                 /\ days # 0 =>
                       RMul(freq.v, RInt(days)) = RInt(Len(trades) * DaysPerMonth)

\* two or more trades spread over at least one whole day
C13_Witness ==
    /\ pc = "done"
    /\ Len(trades) >= 2
    /\ WholeDays(trades[Len(trades)].exit_time - trades[1].time) >= 1
    /\ freq.ok
    /\ freq.v # RInt(Len(trades))

CurveSpan(curve) == curve[Len(curve)][1] - curve[1][1]
PositiveCurve(curve) == \A t \in 1..Len(curve) : RLt(RZero, curve[t][2])
MetricsReturned(m) ==
    /\ m.status = "ok"
    /\ m.max_dd = RZero => m.mar.zero

C15_NoOpBarKeepsPositionAndLog ==
    [][(BarTaken /\ Eligible(closes', LONG_WINDOW)) =>
        LET up == cross_up(closes', SHORT_WINDOW, LONG_WINDOW)
            dn == cross_dn(closes', SHORT_WINDOW, LONG_WINDOW)
        IN ((position = 1 /\ up) \/ (position = -1 /\ dn) \/ (~up /\ ~dn)) =>
              /\ position' = position
              /\ Len(trades') = Len(trades)
              /\ \A i \in 1..Len(trades) : trades'[i] = trades[i]
              /\ UNCHANGED <<SHORT_WINDOW, LONG_WINDOW, rows, pc,
                             strat_metrics, bh_curve, bh_metrics, freq>>]_vars

\* a cross_up met while Long since an earlier bar: one Trade, still open
C15_Witness ==
    /\ pc = "loop"
    /\ Eligible(closes, LONG_WINDOW)
    /\ cross_up(closes, SHORT_WINDOW, LONG_WINDOW)
    /\ position = 1
    /\ Len(trades) = 1
    /\ trades[1].time < rows[Len(closes)].Datetime

\* C16: over a whole run each Trade's exit_time and exit_price are set
\* exactly once, its entry fields never change after creation and a closed
\* Trade is never written again.
C16_TradeWrittenOnce ==
    /\ [][/\ Len(trades') >= Len(trades)
          /\ \A i \in 1..Len(trades) :
                /\ trades'[i].time = trades[i].time
                /\ trades'[i].price = trades[i].price
                /\ trades'[i].position = trades[i].position
                /\ trades[i].exit_price # None => trades'[i] = trades[i]]_vars
    /\ [](\A i \in 1..Len(trades) :
             (trades[i].exit_time = None) <=> (trades[i].exit_price = None))
    /\ [](pc # "loop" => \A i \in 1..Len(trades) : trades[i].exit_price # None)

\* returned with a Trade closed by a signal before the last bar and another
\* closed by the end of data
C16_Witness ==
    /\ pc = "done"
    /\ Len(trades) >= 2
    /\ trades[1].exit_time < rows[Len(rows)].Datetime
    /\ trades[Len(trades)].time < trades[Len(trades)].exit_time

\* C17: given bars with non-decreasing timestamps, every closed Trade has
\* exit_time >= entry_time, during the run and in the returned log.
C17_ExitNotBeforeEntry ==
    \A i \in 1..Len(trades) :
        trades[i].exit_time # None => trades[i].exit_time >= trades[i].time

\* a returned log whose force-closed Trade was entered after the first bar
\* and exits later than it entered
C17_Witness ==
    /\ Returned
    /\ trades # <<>>
    /\ rows[1].Datetime < trades[Len(trades)].time
    /\ trades[Len(trades)].time < trades[Len(trades)].exit_time
    /\ trades[Len(trades)].exit_time = rows[Len(rows)].Datetime

\* C18: after every processed bar position is 0 exactly when the trade log
\* is empty, and otherwise equals the direction of the last Trade, the only
\* open one; once the position has left Flat it never returns to Flat.
C18_PositionMatchesLastTrade ==
    /\ [](/\ position = 0 <=> trades = <<>>
          /\ trades # <<>> =>
                /\ position = trades[Len(trades)].position
                /\ pc = "loop" => OpenTrades(trades) = {Len(trades)})
    /\ [][position # 0 => position' # 0]_vars

\* Short after a reversal, the second Trade the only open one
C18_Witness ==
    /\ pc = "loop"
    /\ position = -1
    /\ Len(trades) = 2
    /\ Len(closes) < Len(rows)

\* C19: in the returned log consecutive trades alternate direction and each
\* trade's exit time and price equal the next trade's entry time and price,
\* so the trades tile the interval from the first entry to the last bar.
C19_TradesTileTheRun ==
    Returned =>
        /\ \A i \in 1..(Len(trades) - 1) :
              /\ trades[i + 1].position = -trades[i].position
              /\ trades[i].exit_time = trades[i + 1].time
              /\ trades[i].exit_price = trades[i + 1].price
        /\ trades # <<>> =>
              /\ trades[Len(trades)].exit_time = rows[Len(rows)].Datetime
              /\ trades[Len(trades)].exit_price = rows[Len(rows)].Close

\* a returned log of three trades at three different prices
C19_Witness ==
    /\ Returned
    /\ Len(trades) = 3
    /\ trades[1].price # trades[2].price
    /\ trades[2].price # trades[3].price
    /\ trades[1].time < trades[2].time

\* C20: SHORT_WINDOW = LONG_WINDOW is accepted; under it short_ma = long_ma
\* and prev_short_ma = prev_long_ma at every eligible bar, neither signal
\* fires, and run_strategy returns zero trades and a curve of 1.0.
C20_EqualWindowsNeverTrade ==
    SHORT_WINDOW = LONG_WINDOW =>
        /\ position = 0
        /\ trades = <<>>
        /\ \A t \in 1..Len(eq_curve) : eq_curve[t][2] = ROne
        /\ Eligible(closes, LONG_WINDOW) =>
              /\ short_ma(closes, SHORT_WINDOW) = long_ma(closes, LONG_WINDOW)
              /\ prev_short_ma(closes, SHORT_WINDOW)
                    = prev_long_ma(closes, LONG_WINDOW)
              /\ ~cross_up(closes, SHORT_WINDOW, LONG_WINDOW)
              /\ ~cross_dn(closes, SHORT_WINDOW, LONG_WINDOW)

\* returned from a run over moving prices with equal windows and eligible bars
C20_Witness ==
    /\ Returned
    /\ rows # <<>>
    /\ SHORT_WINDOW = LONG_WINDOW
    /\ Len(rows) > LONG_WINDOW + 1
    /\ \E i, j \in 1..Len(rows) : rows[i].Close < rows[j].Close
    /\ Len(eq_curve) = Len(rows)
====
